---- MODULE Spec2Model ----
(***************************************************************************)
(* Model of the subtitle aligner of lokosmotos/subtitle-ai-aligner:        *)
(*   backend/app.py       the /api/align request handler and its helpers   *)
(*   backend/ai_model.py  the rule-based SubtitleAI engine                 *)
(*                                                                         *)
(* Text is a sequence of one-character strings.  A character outside ASCII *)
(* is written by its code point, "u4f60" for U+4F60.  A time is an integer *)
(* number of milliseconds (the code's float seconds times 1000).  A score  *)
(* is an integer number of 1/Scale units, so that every sum, product and   *)
(* comparison of the code is exact.                                        *)
(*                                                                         *)
(* backend/ai_model.py as committed lacks the comma that ends line 64 of   *)
(* the critical_phrases literal; the table below is the literal with that  *)
(* comma, the only reading under which the module loads at all.            *)
(***************************************************************************)
EXTENDS Integers, Sequences, FiniteSets, TLC

VARIABLES
  impl,          \* "app": the code of app.py runs, "ai": that of ai_model.py
  provider,      \* get_embeddings in this request: [raises, cosine], the cosine in thousandths
  english_subs,  \* the source track, a sequence of cues [id, start, text]
  chinese_subs,  \* the target track
  pc,            \* the handler's position
  i,             \* app.py: first index of the current batch (0-based, as in the code)
  eng_idx,       \* 0-based index of the source cue being aligned
  chi_idx,       \* 0-based index of the next target cue to score
  best_score,    \* best combined score so far for the current source cue
  best_match,    \* the best target cue so far: <<>> for None, <<cue>> otherwise
  semantic_score,\* app.py: the last value semantic_similarity returned
  results,       \* the records appended so far
  response,      \* what the caller gets: [kind, code, results], kind "none" while running
  scored,        \* the 0-based target positions scored so far for the current source cue
  feedback_store,\* FeedbackStore: the entries held, oldest first
  submissions,   \* every confirmed-correct submission so far, in submission order
  half_up,       \* round(): whether a score half-way between two roundings goes up (the float decides)
  time_str,      \* the argument of the time_to_seconds call
  time_ret       \* its return value in milliseconds (0 before it returns)

vars == <<impl, provider, english_subs, chinese_subs, pc, i, eng_idx, chi_idx,
          best_score, best_match, semantic_score, results, response, scored,
          feedback_store, submissions, half_up, time_str, time_ret>>

\* the str 'NO MATCH' a record carries in place of a target
NO_MATCH == <<"N", "O", " ", "M", "A", "T", "C", "H">>

(***************************************************************************)
(* Python's str operations, on sequences of characters.                    *)
(***************************************************************************)
Max(a, b) == IF a >= b THEN a ELSE b
Min(a, b) == IF a <= b THEN a ELSE b
Abs(a) == IF a < 0 THEN -a ELSE a

\* sub in s
Contains(sub, s) ==
  \E k \in 1..(Len(s) - Len(sub) + 1) :
    \A j \in 1..Len(sub) : s[k + j - 1] = sub[j]

\* c in s, for one character
HasChar(c, s) == \E k \in 1..Len(s) : s[k] = c

UpperCase == <<"A","B","C","D","E","F","G","H","I","J","K","L","M",
               "N","O","P","Q","R","S","T","U","V","W","X","Y","Z">>
LowerCase == <<"a","b","c","d","e","f","g","h","i","j","k","l","m",
               "n","o","p","q","r","s","t","u","v","w","x","y","z">>
IsUpper(c) == \E k \in 1..26 : UpperCase[k] = c
LowerChar(c) == IF IsUpper(c) THEN LowerCase[CHOOSE k \in 1..26 : UpperCase[k] = c] ELSE c
\* s.lower()
Lower(s) == [k \in 1..Len(s) |-> LowerChar(s[k])]

\* s.replace(a, b), for single characters
ReplaceChar(s, a, b) == [k \in 1..Len(s) |-> IF s[k] = a THEN b ELSE s[k]]

IsSpace(c) == c \in {" ", "\t", "\n", "\r"}

RECURSIVE LStrip(_)
LStrip(s) == IF s # <<>> /\ IsSpace(s[1]) THEN LStrip(Tail(s)) ELSE s
RECURSIVE RStrip(_)
RStrip(s) == IF s # <<>> /\ IsSpace(s[Len(s)]) THEN RStrip(SubSeq(s, 1, Len(s) - 1)) ELSE s
\* s.strip()
Strip(s) == RStrip(LStrip(s))

\* s.split(sep), for a one-character separator: the list of fields
RECURSIVE SplitFrom(_, _, _)
SplitFrom(s, sep, cur) ==
  IF s = <<>> THEN <<cur>>
  ELSE IF s[1] = sep THEN <<cur>> \o SplitFrom(Tail(s), sep, <<>>)
  ELSE SplitFrom(Tail(s), sep, Append(cur, s[1]))
Split(s, sep) == SplitFrom(s, sep, <<>>)

(***************************************************************************)
(* Python's int() and float() on the characters the model's inputs use:    *)
(* surrounding whitespace, an optional sign, decimal digits and, for       *)
(* float, one optional '.'.  Anything else raises ValueError.              *)
(***************************************************************************)
DigitChars == <<"0","1","2","3","4","5","6","7","8","9">>
IsDigit(c) == \E k \in 1..10 : DigitChars[k] = c
DigitVal(c) == (CHOOSE k \in 1..10 : DigitChars[k] = c) - 1
AllDigits(s) == \A k \in 1..Len(s) : IsDigit(s[k])
RECURSIVE NatVal(_)
NatVal(s) == IF s = <<>> THEN 0 ELSE NatVal(SubSeq(s, 1, Len(s) - 1)) * 10 + DigitVal(s[Len(s)])

HasSign(s) == s # <<>> /\ s[1] \in {"-", "+"}
Unsigned(s) == IF HasSign(s) THEN Tail(s) ELSE s
SignOf(s) == IF s # <<>> /\ s[1] = "-" THEN -1 ELSE 1

\* int(s) does not raise
IntParses(s) == LET u == Unsigned(Strip(s)) IN u # <<>> /\ AllDigits(u)
\* int(s)
IntValue(s) == SignOf(Strip(s)) * NatVal(Unsigned(Strip(s)))

\* the digits of float's argument before and after its '.'
FloatParts(s) == Split(Unsigned(Strip(s)), ".")
\* float(s) does not raise
FloatParses(s) ==
  LET p == FloatParts(s) IN
    /\ Len(p) \in {1, 2}
    /\ \A k \in 1..Len(p) : AllDigits(p[k])
    /\ \E k \in 1..Len(p) : p[k] # <<>>
\* the first three fractional digits as milliseconds
FracMillis(f) == NatVal(SubSeq(f \o <<"0", "0", "0">>, 1, 3))
\* float(s), in thousandths
FloatMillis(s) ==
  LET p == FloatParts(s) IN
    SignOf(Strip(s)) * (NatVal(p[1]) * 1000 + (IF Len(p) = 2 THEN FracMillis(p[2]) ELSE 0))

\* the try block shared by both time_to_seconds: the value returned, 0 when
\* the length test fails or int()/float() raises (the bare except)
ParseTime(s) ==
  LET parts == Split(s, ":") IN
    IF Len(parts) = 3 /\ IntParses(parts[1]) /\ IntParses(parts[2]) /\ FloatParses(parts[3])
    THEN IntValue(parts[1]) * 3600000 + IntValue(parts[2]) * 60000 + FloatMillis(parts[3])
    ELSE 0

\* app.py time_to_seconds(time_str), in milliseconds
time_to_seconds(s) == ParseTime(ReplaceChar(s, ",", "."))

\* ai_model.py SubtitleAI.time_to_seconds(time_str), in milliseconds
SubtitleAI_time_to_seconds(s) ==
  ParseTime(IF HasChar(",", s) THEN ReplaceChar(s, ",", ".") ELSE s)

(***************************************************************************)
(* Scores.  Scale units make 1.0; every weight, threshold and quotient the *)
(* code forms is a whole number of units (a quotient m/p for p up to 10).  *)
(***************************************************************************)
Scale == 80000 * 2520

\* m / p, exactly; undefined (TLC stops) if p does not divide Scale
Ratio(m, p) == (CHOOSE q \in {Scale \div p} : q * p = Scale) * m

\* x * (n / 10) for a score x
Tenths(x, n) == (x * n) \div 10

\* the literal n/1000 as a score
Milli(n) == n * (Scale \div 1000)

(***************************************************************************)
(* The keyword tables, in dictionary order.                                *)
(***************************************************************************)
\* ai_model.py SubtitleAI.__init__: self.critical_phrases
critical_phrases ==
  <<
  [key |-> <<"y", "e", "s">>, forms |-> <<<<"u662f">>, <<"u5bf9", "u7684">>, <<"u597d", "u7684">>, <<"u53ef", "u4ee5">>, <<"u6ca1", "u9519">>>>],
  [key |-> <<"n", "o">>, forms |-> <<<<"u4e0d">>, <<"u4e0d", "u662f">>, <<"u4e0d", "u8981">>, <<"u4e0d", "u884c">>, <<"u6ca1", "u6709">>>>],
  [key |-> <<"l", "o", "o", "k">>, forms |-> <<<<"u770b">>, <<"u77a7">>, <<"u770b", "u770b">>, <<"u770b", "u4e00", "u4e0b">>, <<"u6ce8", "u89c6">>>>],
  [key |-> <<"s", "h", "i", "p">>, forms |-> <<<<"u8239">>, <<"u5e06", "u8239">>, <<"u8239", "u53ea">>, <<"u8239", "u8236">>, <<"u8230", "u8239">>>>],
  [key |-> <<"b", "i", "g">>, forms |-> <<<<"u5927">>, <<"u5de8", "u5927">>, <<"u5f88", "u5927">>, <<"u5927", "u7684">>, <<"u5e9e", "u5927">>>>],
  [key |-> <<"w", "h", "y">>, forms |-> <<<<"u4e3a", "u4ec0", "u4e48">>, <<"u70ba", "u4f55">>, <<"u4e3a", "u5565">>, <<"u4e3a", "u4f55">>, <<"u4f55", "u6545">>>>],
  [key |-> <<"b", "e", "c", "a", "u", "s", "e">>, forms |-> <<<<"u56e0", "u4e3a">>, <<"u7531", "u65bc">>, <<"u6240", "u4ee5">>, <<"u539f", "u56e0", "u662f">>>>],
  [key |-> <<"m", "a", "g", "i", "c">>, forms |-> <<<<"u795e">>, <<"u9b54">>, <<"u9b54", "u6cd5">>, <<"u795e", "u5947">>, <<"u9b54", "u672f">>>>],
  [key |-> <<"l", "a", "m", "p">>, forms |-> <<<<"u71c8">>, <<"u706f">>, <<"u706f", "u7b3c">>, <<"u6cb9", "u706f">>>>],
  [key |-> <<"h", "e", "l", "l", "o">>, forms |-> <<<<"u4f60", "u597d">>, <<"u60a8", "u597d">>, <<"u55e8">>, <<"u54c8", "u55bd">>>>],
  [key |-> <<"t", "h", "a", "n", "k", " ", "y", "o", "u">>, forms |-> <<<<"u8c22", "u8c22">>, <<"u611f", "u8c22">>, <<"u591a", "u8c22">>, <<"u8c22", "u8c22", "u4f60">>>>],
  [key |-> <<"s", "o", "r", "r", "y">>, forms |-> <<<<"u5bf9", "u4e0d", "u8d77">>, <<"u62b1", "u6b49">>, <<"u4e0d", "u597d", "u610f", "u601d">>>>],
  [key |-> <<"o", "k", "a", "y">>, forms |-> <<<<"u597d">>, <<"u53ef", "u4ee5">>, <<"u884c">>, <<"u6ca1", "u95ee", "u9898">>, <<"u597d", "u5427">>>>],
  [key |-> <<"p", "l", "e", "a", "s", "e">>, forms |-> <<<<"u8bf7">>, <<"u62dc", "u6258">>, <<"u6c42", "u4f60", "u4e86">>>>],
  [key |-> <<"w", "h", "a", "t">>, forms |-> <<<<"u4ec0", "u4e48">>, <<"u5565">>, <<"u4f55", "u4e8b">>, <<"u5e72", "u4ec0", "u4e48">>>>],
  [key |-> <<"w", "h", "e", "r", "e">>, forms |-> <<<<"u54ea", "u91cc">>, <<"u54ea", "u513f">>, <<"u4f55", "u5904">>, <<"u4ec0", "u4e48", "u5730", "u65b9">>>>],
  [key |-> <<"w", "h", "e", "n">>, forms |-> <<<<"u4ec0", "u4e48", "u65f6", "u5019">>, <<"u4f55", "u65f6">>, <<"u51e0", "u65f6">>>>],
  [key |-> <<"h", "o", "w">>, forms |-> <<<<"u600e", "u4e48">>, <<"u5982", "u4f55">>, <<"u600e", "u6837">>, <<"u600e", "u4e48", "u6837">>>>],
  [key |-> <<"w", "h", "o">>, forms |-> <<<<"u8c01">>, <<"u4f55", "u4eba">>, <<"u4ec0", "u4e48", "u4eba">>>>],
  [key |-> <<"g", "o", "o", "d">>, forms |-> <<<<"u597d">>, <<"u826f", "u597d">>, <<"u4e0d", "u9519">>, <<"u4f18", "u79c0">>, <<"u68d2">>>>],
  [key |-> <<"b", "a", "d">>, forms |-> <<<<"u574f">>, <<"u4e0d", "u597d">>, <<"u7cdf", "u7cd5">>, <<"u5dee", "u52b2">>>>],
  [key |-> <<"h", "a", "p", "p", "y">>, forms |-> <<<<"u5f00", "u5fc3">>, <<"u9ad8", "u5174">>, <<"u5feb", "u4e50">>, <<"u6109", "u5feb">>>>],
  [key |-> <<"s", "a", "d">>, forms |-> <<<<"u4f24", "u5fc3">>, <<"u96be", "u8fc7">>, <<"u60b2", "u4f24">>, <<"u60b2", "u54c0">>>>],
  [key |-> <<"b", "e", "a", "u", "t", "i", "f", "u", "l">>, forms |-> <<<<"u6f02", "u4eae">>, <<"u7f8e", "u4e3d">>, <<"u597d", "u770b">>, <<"u4f18", "u7f8e">>>>],
  [key |-> <<"u", "g", "l", "y">>, forms |-> <<<<"u4e11">>, <<"u96be", "u770b">>, <<"u4e11", "u964b">>, <<"u4e11", "u6076">>>>],
  [key |-> <<"l", "o", "v", "e">>, forms |-> <<<<"u7231">>, <<"u559c", "u6b22">>, <<"u7231", "u60c5">>, <<"u604b", "u7231">>>>],
  [key |-> <<"h", "a", "t", "e">>, forms |-> <<<<"u6068">>, <<"u8ba8", "u538c">>, <<"u538c", "u6076">>, <<"u618e", "u6068">>>>],
  [key |-> <<"w", "a", "n", "t">>, forms |-> <<<<"u8981">>, <<"u60f3", "u8981">>, <<"u9700", "u8981">>, <<"u5e0c", "u671b">>>>],
  [key |-> <<"h", "a", "v", "e">>, forms |-> <<<<"u6709">>, <<"u62e5", "u6709">>, <<"u5177", "u6709">>, <<"u5177", "u5907">>>>],
  [key |-> <<"c", "a", "n">>, forms |-> <<<<"u53ef", "u4ee5">>, <<"u80fd">>, <<"u80fd", "u591f">>, <<"u4f1a">>>>],
  [key |-> <<"c", "a", "n", "n", "o", "t">>, forms |-> <<<<"u4e0d", "u80fd">>, <<"u4e0d", "u53ef", "u4ee5">>, <<"u4e0d", "u4f1a">>, <<"u65e0", "u6cd5">>>>],
  [key |-> <<"w", "i", "l", "l">>, forms |-> <<<<"u4f1a">>, <<"u5c06", "u8981">>, <<"u613f", "u610f">>, <<"u6253", "u7b97">>>>],
  [key |-> <<"g", "o">>, forms |-> <<<<"u53bb">>, <<"u8d70">>, <<"u524d", "u5f80">>, <<"u51fa", "u53d1">>>>],
  [key |-> <<"c", "o", "m", "e">>, forms |-> <<<<"u6765">>, <<"u8fc7", "u6765">>, <<"u6765", "u5230">>, <<"u6765", "u4e34">>>>],
  [key |-> <<"s", "e", "e">>, forms |-> <<<<"u770b", "u89c1">>, <<"u770b", "u5230">>, <<"u89c1", "u9762">>, <<"u89c1", "u5230">>>>],
  [key |-> <<"h", "e", "a", "r">>, forms |-> <<<<"u542c", "u89c1">>, <<"u542c", "u5230">>, <<"u542c", "u95fb">>, <<"u542c", "u8bf4">>>>],
  [key |-> <<"s", "a", "y">>, forms |-> <<<<"u8bf4">>, <<"u8bb2">>, <<"u544a", "u8bc9">>, <<"u8bf4", "u9053">>>>],
  [key |-> <<"t", "h", "i", "n", "k">>, forms |-> <<<<"u60f3">>, <<"u601d", "u8003">>, <<"u8ba4", "u4e3a">>, <<"u89c9", "u5f97">>>>],
  [key |-> <<"k", "n", "o", "w">>, forms |-> <<<<"u77e5", "u9053">>, <<"u4e86", "u89e3">>, <<"u8ba4", "u8bc6">>, <<"u660e", "u767d">>>>],
  [key |-> <<"t", "i", "m", "e">>, forms |-> <<<<"u65f6", "u95f4">>, <<"u65f6", "u5019">>, <<"u65f6", "u523b">>, <<"u65f6", "u5149">>>>],
  [key |-> <<"d", "a", "y">>, forms |-> <<<<"u5929">>, <<"u65e5">>, <<"u767d", "u5929">>, <<"u65e5", "u5b50">>>>],
  [key |-> <<"n", "i", "g", "h", "t">>, forms |-> <<<<"u665a", "u4e0a">>, <<"u591c", "u665a">>, <<"u591c", "u91cc">>, <<"u665a", "u95f4">>>>],
  [key |-> <<"w", "a", "t", "e", "r">>, forms |-> <<<<"u6c34">>, <<"u6c34", "u5206">>, <<"u6c34", "u57df">>, <<"u6d77", "u6c34">>>>],
  [key |-> <<"f", "i", "r", "e">>, forms |-> <<<<"u706b">>, <<"u706b", "u7130">>, <<"u706b", "u707e">>, <<"u706b", "u5149">>>>],
  [key |-> <<"e", "a", "r", "t", "h">>, forms |-> <<<<"u571f">>, <<"u571f", "u5730">>, <<"u5730", "u7403">>, <<"u5927", "u5730">>>>],
  [key |-> <<"a", "i", "r">>, forms |-> <<<<"u7a7a", "u6c14">>, <<"u5929", "u7a7a">>, <<"u5927", "u6c14">>, <<"u7a7a", "u4e2d">>>>],
  [key |-> <<"m", "a", "n">>, forms |-> <<<<"u7537", "u4eba">>, <<"u7537", "u5b50">>, <<"u7537", "u58eb">>, <<"u7537", "u6027">>>>],
  [key |-> <<"w", "o", "m", "a", "n">>, forms |-> <<<<"u5973", "u4eba">>, <<"u5973", "u5b50">>, <<"u5973", "u58eb">>, <<"u5973", "u6027">>>>],
  [key |-> <<"c", "h", "i", "l", "d">>, forms |-> <<<<"u5b69", "u5b50">>, <<"u513f", "u7ae5">>, <<"u5c0f", "u5b69">>, <<"u5c0f", "u670b", "u53cb">>>>],
  [key |-> <<"f", "r", "i", "e", "n", "d">>, forms |-> <<<<"u670b", "u53cb">>, <<"u53cb", "u4eba">>, <<"u597d", "u53cb">>, <<"u4f19", "u4f34">>>>],
  [key |-> <<"f", "a", "m", "i", "l", "y">>, forms |-> <<<<"u5bb6", "u5ead">>, <<"u5bb6", "u4eba">>, <<"u5bb6", "u5c5e">>, <<"u4eb2", "u4eba">>>>],
  [key |-> <<"h", "o", "m", "e">>, forms |-> <<<<"u5bb6">>, <<"u5bb6", "u5ead">>, <<"u5bb6", "u56ed">>, <<"u5bb6", "u91cc">>>>],
  [key |-> <<"f", "o", "o", "d">>, forms |-> <<<<"u98df", "u7269">>, <<"u98df", "u54c1">>, <<"u5403", "u7684">>, <<"u996d", "u83dc">>>>],
  [key |-> <<"m", "o", "n", "e", "y">>, forms |-> <<<<"u94b1">>, <<"u91d1", "u94b1">>, <<"u8d27", "u5e01">>, <<"u8d44", "u91d1">>>>],
  [key |-> <<"w", "o", "r", "k">>, forms |-> <<<<"u5de5", "u4f5c">>, <<"u5e72", "u6d3b">>, <<"u505a", "u4e8b">>, <<"u804c", "u4e1a">>>>],
  [key |-> <<"l", "i", "f", "e">>, forms |-> <<<<"u751f", "u6d3b">>, <<"u751f", "u547d">>, <<"u4eba", "u751f">>, <<"u751f", "u5b58">>>>],
  [key |-> <<"d", "e", "a", "t", "h">>, forms |-> <<<<"u6b7b", "u4ea1">>, <<"u6b7b">>, <<"u53bb", "u4e16">>, <<"u901d", "u4e16">>>>],
  [key |-> <<"c", "h", "i", "l", "d", "r", "e", "n">>, forms |-> <<<<"u5b69", "u5b50">>, <<"u513f", "u7ae5">>, <<"u5c0f", "u670b", "u53cb">>>>],
  [key |-> <<"l", "e", "a", "r", "n", "i", "n", "g">>, forms |-> <<<<"u5b66">>, <<"u5b66", "u4e60">>, <<"u5b66", "u5230">>>>],
  [key |-> <<"d", "e", "a", "r">>, forms |-> <<<<"u4eb2", "u7231", "u7684">>, <<"u4eb2", "u7231">>>>],
  [key |-> <<"u", "n", "c", "l", "e", "a", "r">>, forms |-> <<<<"u4e0d", "u786e", "u5b9a">>, <<"u4e0d", "u6e05", "u695a">>, <<"u4e0d", "u660e">>>>],
  [key |-> <<"a", "l", "a", "d", "d", "i", "n">>, forms |-> <<<<"u963f", "u62c9", "u4e01">>>>],
  [key |-> <<"p", "r", "i", "n", "c", "e", "s", "s">>, forms |-> <<<<"u516c", "u4e3b">>>>],
  [key |-> <<"s", "t", "o", "r", "y">>, forms |-> <<<<"u6545", "u4e8b">>, <<"u8bf4", "u8bf4">>, <<"u8bb2", "u8ff0">>>>]
  >>

\* ai_model.py SubtitleAI.__init__: self.semantic_groups (confidence in hundredths)
semantic_groups ==
  <<
  [english |-> <<<<"w", "i", "s", "h", " ", "o", "u", "r", "s", " ", "w", "a", "s", " ", "t", "h", "a", "t", " ", "f", "a", "n", "c", "y">>, <<"i", "'", "d", " ", "b", "e", " ", "s", "o", " ", "h", "a", "p", "p", "y", " ", "i", "f">>, <<"w", "a", "n", "t", " ", "o", "u", "r", " ", "s", "h", "i", "p", " ", "t", "o", " ", "b", "e", " ", "b", "e", "t", "t", "e", "r">>, <<"i", "f", " ", "o", "n", "l", "y", " ", "o", "u", "r", "s", " ", "w", "a", "s">>, <<"h", "o", "p", "e", " ", "o", "u", "r", "s", " ", "w", "a", "s">>>>,
   chinese |-> <<<<"u6211", "u5011", "u7684", "u8239", "u597d", "u7834", "u721b">>, <<"u8239", "u5982", "u679c", "u90a3", "u9ebc", "u6f02", "u4eae", "u5c31", "u597d", "u4e86">>, <<"u5e0c", "u671b", "u6211", "u5011", "u7684", "u8239", "u66f4", "u597d">>, <<"u8981", "u662f", "u6211", "u5011", "u7684", "u8239", "u4e5f", "u9019", "u6a23">>, <<"u771f", "u60f3", "u6211", "u5011", "u7684", "u8239", "u4e5f", "u9019", "u9ebc", "u597d">>>>,
   confidence |-> 90],
  [english |-> <<<<"w", "h", "y", " ", "i", "s", " ", "t", "h", "a", "t">>, <<"b", "e", "c", "a", "u", "s", "e", " ", "i", "t", " ", "l", "o", "o", "k", "s", " ", "b", "e", "t", "t", "e", "r">>, <<"w", "h", "y">>, <<"w", "h", "a", "t", "'", "s", " ", "t", "h", "e", " ", "r", "e", "a", "s", "o", "n">>, <<"h", "o", "w", " ", "c", "o", "m", "e">>>>,
   chinese |-> <<<<"u70ba", "u4ec0", "u9ebc">>, <<"u5c31", "u56e0", "u70ba", "u5b83", "u6bd4", "u8f03", "u65b0">>, <<"u539f", "u56e0", "u662f">>, <<"u70ba", "u4f55", "u9019", "u6a23">>, <<"u600e", "u9ebc", "u56de", "u4e8b">>>>,
   confidence |-> 95],
  [english |-> <<<<"t", "h", "i", "s", " ", "b", "o", "a", "t", " ", "h", "a", "s", " ", "s", "e", "e", "n", " ", "u", "s", " ", "t", "h", "r", "o", "u", "g", "h", " ", "m", "a", "n", "y", " ", "s", "t", "o", "r", "m", "s">>, <<"i", "t", " ", "h", "a", "s", " ", "b", "e", "e", "n", " ", "t", "h", "r", "o", "u", "g", "h", " ", "s", "t", "o", "r", "m", "s">>, <<"s", "u", "r", "v", "i", "v", "e", "d", " ", "m", "a", "n", "y", " ", "s", "t", "o", "r", "m", "s">>, <<"w", "e", "a", "t", "h", "e", "r", " ", "m", "a", "n", "y", " ", "s", "t", "o", "r", "m", "s">>>>,
   chinese |-> <<<<"u9019", "u8258", "u8239", "u5e36", "u6211", "u5011", "u6e21", "u904e", "u5f88", "u591a", "u66b4", "u98a8", "u96e8">>, <<"u7d93", "u6b77", "u904e", "u5f88", "u591a", "u98a8", "u96e8">>, <<"u95d6", "u904e", "u5f88", "u591a", "u66b4", "u98a8", "u96e8">>, <<"u7d93", "u6b77", "u7121", "u6578", "u98a8", "u96e8">>>>,
   confidence |-> 85],
  [english |-> <<<<"h", "e", "y", " ", "l", "o", "o", "k">>, <<"o", "v", "e", "r", " ", "t", "h", "e", "r", "e">>, <<"l", "o", "o", "k", " ", "a", "t", " ", "t", "h", "a", "t">>, <<"c", "h", "e", "c", "k", " ", "t", "h", "a", "t", " ", "o", "u", "t">>, <<"s", "e", "e", " ", "t", "h", "e", "r", "e">>>>,
   chinese |-> <<<<"u59b3", "u770b">>, <<"u770b", "u90a3", "u88e1">>, <<"u5feb", "u770b">>, <<"u77a7", "u90a3", "u908a">>, <<"u770b", "u90a3", "u908a">>>>,
   confidence |-> 95],
  [english |-> <<<<"b", "e", "t", "t", "e", "r", " ", "t", "h", "a", "n">>, <<"w", "o", "r", "s", "e", " ", "t", "h", "a", "n">>, <<"b", "i", "g", "g", "e", "r", " ", "t", "h", "a", "n">>, <<"s", "m", "a", "l", "l", "e", "r", " ", "t", "h", "a", "n">>, <<"m", "o", "r", "e", " ", "t", "h", "a", "n">>, <<"l", "e", "s", "s", " ", "t", "h", "a", "n">>>>,
   chinese |-> <<<<"u6bd4", ".", ".", ".", "u597d">>, <<"u6bd4", ".", ".", ".", "u5dee">>, <<"u6bd4", ".", ".", ".", "u5927">>, <<"u6bd4", ".", ".", ".", "u5c0f">>, <<"u6bd4", ".", ".", ".", "u591a">>, <<"u6bd4", ".", ".", ".", "u5c11">>>>,
   confidence |-> 80],
  [english |-> <<<<"i", " ", "a", "g", "r", "e", "e">>, <<"t", "h", "a", "t", "'", "s", " ", "r", "i", "g", "h", "t">>, <<"e", "x", "a", "c", "t", "l", "y">>, <<"y", "o", "u", "'", "r", "e", " ", "r", "i", "g", "h", "t">>, <<"t", "r", "u", "e">>>>,
   chinese |-> <<<<"u6211", "u540c", "u610f">>, <<"u6c92", "u932f">>, <<"u78ba", "u5be6">>, <<"u4f60", "u8aaa", "u5f97", "u5c0d">>, <<"u662f", "u7684">>>>,
   confidence |-> 90],
  [english |-> <<<<"i", " ", "d", "i", "s", "a", "g", "r", "e", "e">>, <<"t", "h", "a", "t", "'", "s", " ", "w", "r", "o", "n", "g">>, <<"n", "o", " ", "w", "a", "y">>, <<"n", "o", "t", " ", "t", "r", "u", "e">>, <<"i", "n", "c", "o", "r", "r", "e", "c", "t">>>>,
   chinese |-> <<<<"u6211", "u4e0d", "u540c", "u610f">>, <<"u4e0d", "u5c0d">>, <<"u4e0d", "u53ef", "u80fd">>, <<"u4e0d", "u662f", "u771f", "u7684">>, <<"u932f", "u8aa4">>>>,
   confidence |-> 90]
  >>

\* app.py SmartSubtitleAI.keyword_similarity: keyword_pairs
keyword_pairs ==
  <<
  [key |-> <<"h", "e", "l", "l", "o">>, forms |-> <<<<"u4f60", "u597d">>, <<"u60a8", "u597d">>, <<"u55e8">>>>],
  [key |-> <<"t", "h", "a", "n", "k">>, forms |-> <<<<"u8c22", "u8c22">>, <<"u611f", "u8c22">>, <<"u591a", "u8c22">>>>],
  [key |-> <<"s", "o", "r", "r", "y">>, forms |-> <<<<"u5bf9", "u4e0d", "u8d77">>, <<"u62b1", "u6b49">>>>],
  [key |-> <<"y", "e", "s">>, forms |-> <<<<"u662f">>, <<"u662f", "u7684">>, <<"u5bf9", "u554a">>>>],
  [key |-> <<"n", "o">>, forms |-> <<<<"u4e0d">>, <<"u4e0d", "u662f">>, <<"u6ca1", "u6709">>>>],
  [key |-> <<"g", "o", "o", "d">>, forms |-> <<<<"u597d">>, <<"u5f88", "u597d">>, <<"u4e0d", "u9519">>>>],
  [key |-> <<"b", "a", "d">>, forms |-> <<<<"u574f">>, <<"u4e0d", "u597d">>, <<"u7cdf", "u7cd5">>>>],
  [key |-> <<"b", "i", "g">>, forms |-> <<<<"u5927">>, <<"u5f88", "u5927">>, <<"u5927", "u578b">>>>],
  [key |-> <<"s", "m", "a", "l", "l">>, forms |-> <<<<"u5c0f">>, <<"u5f88", "u5c0f">>, <<"u5c0f", "u578b">>>>],
  [key |-> <<"l", "o", "v", "e">>, forms |-> <<<<"u7231">>, <<"u559c", "u6b22">>, <<"u7231", "u7740">>>>],
  [key |-> <<"f", "a", "m", "i", "l", "y">>, forms |-> <<<<"u5bb6", "u5ead">>, <<"u5bb6", "u4eba">>, <<"u5bb6">>>>],
  [key |-> <<"f", "r", "i", "e", "n", "d">>, forms |-> <<<<"u670b", "u53cb">>, <<"u597d", "u53cb">>, <<"u53cb", "u4eba">>>>],
  [key |-> <<"s", "c", "h", "o", "o", "l">>, forms |-> <<<<"u5b66", "u6821">>, <<"u4e0a", "u5b66">>, <<"u6821", "u56ed">>>>],
  [key |-> <<"t", "i", "m", "e">>, forms |-> <<<<"u65f6", "u95f4">>, <<"u65f6", "u5019">>, <<"u65f6", "u5149">>>>],
  [key |-> <<"d", "r", "e", "a", "m">>, forms |-> <<<<"u68a6", "u60f3">>, <<"u68a6">>, <<"u5e7b", "u60f3">>>>]
  >>

(***************************************************************************)
(* Lexical scores.                                                         *)
(***************************************************************************)
\* has_eng: the key occurs in the lower-cased source text
HasEng(row, eng_lower) == Contains(row.key, eng_lower)
\* has_chi: any(form in chi_text for form in forms)
HasChi(row, chi_text) == \E f \in 1..Len(row.forms) : Contains(row.forms[f], chi_text)

\* a count of the rows whose key is in the source text, whatever the target holds
ApplicableRows_SourceOnly(table, eng_lower, chi_text) ==
  {k \in 1..Len(table) : HasEng(table[k], eng_lower)}

\* the rows counted in possible / total_keywords
ApplicableRows(table, eng_lower, chi_text) ==
  {k \in 1..Len(table) : HasEng(table[k], eng_lower) \/ HasChi(table[k], chi_text)}
\* the rows counted in matches
MatchRows(table, eng_lower, chi_text) ==
  {k \in 1..Len(table) : HasEng(table[k], eng_lower) /\ HasChi(table[k], chi_text)}

\* app.py SmartSubtitleAI.keyword_similarity
keyword_similarity(eng_text, chi_text) ==
  LET eng_lower == Lower(eng_text)
      matches == Cardinality(MatchRows(keyword_pairs, eng_lower, chi_text))
      total_keywords == Cardinality(ApplicableRows(keyword_pairs, eng_lower, chi_text))
  IN Ratio(matches, Max(total_keywords, 1))

\* ai_model.py SubtitleAI.calculate_critical_score
calculate_critical_score(eng_text, chi_text) ==
  LET eng_lower == Lower(eng_text)
      matches == Cardinality(MatchRows(critical_phrases, eng_lower, chi_text))
      possible == Cardinality(ApplicableRows(critical_phrases, eng_lower, chi_text))
  IN Ratio(matches, Max(possible, 1))

\* ai_model.py SubtitleAI.calculate_semantic_score: the confidence of the
\* first group with a phrase on both sides, 0.1 when there is none
GroupHit(g, eng_lower, chi_text) ==
  /\ \E p \in 1..Len(g.english) : Contains(g.english[p], eng_lower)
  /\ \E p \in 1..Len(g.chinese) : Contains(g.chinese[p], chi_text)
calculate_semantic_score(eng_text, chi_text) ==
  LET eng_lower == Lower(eng_text)
      hits == {k \in 1..Len(semantic_groups) : GroupHit(semantic_groups[k], eng_lower, chi_text)}
  IN IF hits = {} THEN Milli(100)
     ELSE Milli(10 * semantic_groups[CHOOSE k \in hits : \A h \in hits : k <= h].confidence)

\* len(text.split()): the number of maximal runs of non-space characters
WordCount(s) ==
  Cardinality({k \in 1..Len(s) : ~IsSpace(s[k]) /\ (k = 1 \/ IsSpace(s[k - 1]))})

\* ai_model.py SubtitleAI.calculate_structure_score
calculate_structure_score(eng_text, chi_text) ==
  LET eng_is_question == HasChar("?", eng_text)
      chi_is_question == HasChar("uff1f", chi_text) \/ HasChar("?", chi_text)
      eng_is_exclamation == HasChar("!", eng_text)
      chi_is_exclamation == HasChar("uff01", chi_text) \/ HasChar("!", chi_text)
      eng_words == WordCount(eng_text)
      chi_chars == Len(chi_text)
      \* 0.2 <= eng_words / chi_chars <= 0.6
      ratio_ok == /\ eng_words > 0 /\ chi_chars > 0
                  /\ 2 * chi_chars <= 10 * eng_words
                  /\ 10 * eng_words <= 6 * chi_chars
      score == (IF eng_is_question = chi_is_question THEN Milli(300) ELSE 0)
             + (IF eng_is_exclamation = chi_is_exclamation THEN Milli(300) ELSE 0)
             + (IF ratio_ok THEN Milli(400) ELSE 0)
  IN Min(Scale, score)

(***************************************************************************)
(* ai_model.py SubtitleAI.clean_text                                       *)
(***************************************************************************)
\* the number of upper-case letters s starts with
RECURSIVE UpperRun(_)
UpperRun(s) == IF s # <<>> /\ IsUpper(s[1]) THEN 1 + UpperRun(Tail(s)) ELSE 0
\* re.sub(r'^[A-Z]+:\s*', '', text)
RemoveSpeaker(s) ==
  LET n == UpperRun(s) IN
    IF n >= 1 /\ n < Len(s) /\ s[n + 1] = ":"
    THEN LStrip(SubSeq(s, n + 2, Len(s)))
    ELSE s
\* re.sub(open [^close]* close, '', text)
RECURSIVE RemoveDelimited(_, _, _)
RemoveDelimited(s, open, close) ==
  IF s = <<>> THEN <<>>
  ELSE IF s[1] = open /\ HasChar(close, Tail(s))
       THEN LET e == CHOOSE k \in 2..Len(s) : s[k] = close /\ \A j \in 2..(k - 1) : s[j] # close
            IN RemoveDelimited(SubSeq(s, e + 1, Len(s)), open, close)
       ELSE <<s[1]>> \o RemoveDelimited(Tail(s), open, close)
\* re.sub(c, '', text)
RemoveChar(s, c) == SelectSeq(s, LAMBDA x : x # c)
\* re.sub(r'\s+', ' ', text)
RECURSIVE CollapseSpaces(_)
CollapseSpaces(s) ==
  IF s = <<>> THEN <<>>
  ELSE IF IsSpace(s[1]) THEN <<" ">> \o CollapseSpaces(LStrip(s))
  ELSE <<s[1]>> \o CollapseSpaces(Tail(s))

clean_text(text) ==
  IF text = <<>> THEN <<>>
  ELSE Strip(CollapseSpaces(
         RemoveDelimited(
           RemoveChar(
             RemoveDelimited(RemoveSpeaker(text), "(", ")"),
             "u266a"),
           "[", "]")))

(***************************************************************************)
(* ai_model.py: the score of one candidate pair.                           *)
(***************************************************************************)
\* ai_model.py SubtitleAI.calculate_content_similarity
calculate_content_similarity(eng_text, chi_text) ==
  LET eng_text_clean == clean_text(eng_text)
      critical_score == calculate_critical_score(eng_text_clean, chi_text)
      semantic == calculate_semantic_score(eng_text_clean, chi_text)
      structure_score == calculate_structure_score(eng_text_clean, chi_text)
  IN Tenths(critical_score, 6) + Tenths(semantic, 3) + Tenths(structure_score, 1)

\* max(0, 1 - time_diff / window), the window in milliseconds
TimingScore(time_diff, window) ==
  IF time_diff >= window THEN 0 ELSE Scale - time_diff * (Scale \div window)

\* ai_model.py SubtitleAI.calculate_match_score
calculate_match_score(eng_sub, chi_sub) ==
  LET eng_time == SubtitleAI_time_to_seconds(eng_sub.start)
      chi_time == SubtitleAI_time_to_seconds(chi_sub.start)
      time_diff == Abs(eng_time - chi_time)
      timing_score == TimingScore(time_diff, 5000)
      content_score == calculate_content_similarity(eng_sub.text, chi_sub.text)
      score == Tenths(timing_score, 5) + Tenths(content_score, 5)
  IN Min(Scale, Max(0, score))

(***************************************************************************)
(* app.py: the score of one candidate pair in api_align_subtitles.         *)
(***************************************************************************)
\* semantic_similarity with the try/except left out: the exception of
\* get_embeddings reaches the caller
semantic_similarity_NoTry(prov, text1, text2) ==
  [raised |-> prov.raises, value |-> IF prov.raises THEN 0 ELSE Milli(prov.cosine)]

\* app.py SmartSubtitleAI.semantic_similarity: the cosine get_embeddings
\* yields, or keyword_similarity when get_embeddings raises; raised tells
\* whether an exception leaves the call (keyword_similarity raises none)
semantic_similarity(prov, text1, text2) ==
  [raised |-> FALSE,
   value |-> IF prov.raises THEN keyword_similarity(text1, text2) ELSE Milli(prov.cosine)]

\* app.py api_align_subtitles, lines 229-236: combined_score
combined_score(sem, eng_sub, chi_sub) ==
  LET eng_time == time_to_seconds(eng_sub.start)
      chi_time == time_to_seconds(chi_sub.start)
      time_diff == Abs(eng_time - chi_time)
      timing_score == TimingScore(time_diff, 8000)
  IN Tenths(sem, 7) + Tenths(timing_score, 3)

\* round(score, digits), in units of the last digit kept: the nearest
\* multiple of unit; up tells where a score half-way between two goes, which
\* in the code the float's last bits decide
Round(score, unit, up) ==
  LET q == score \div unit
      r == score - q * unit
  IN IF 2 * r > unit \/ (2 * r = unit /\ up) THEN q + 1 ELSE q

batch_size == 20
search_radius == 15

\* a batch that stops one cue early
batch_end_OffByOne(start, n_eng) == Min(start + batch_size - 1, n_eng)

\* app.py line 212: batch_end, 0-based and exclusive
batch_end(start, n_eng) == Min(start + batch_size, n_eng)

\* app.py lines 220-221, 0-based, end exclusive
search_start(idx) == Max(0, idx - search_radius)
search_end(idx, n_chi) == Min(n_chi, idx + search_radius)

\* a classification whose thresholds are inclusive
AppStatus_AtLeast(score) ==
  IF score >= Milli(700) THEN "ALIGNED"
  ELSE IF score >= Milli(500) THEN "REVIEW"
  ELSE "MISALIGNED"

\* app.py lines 243-251
AppStatus(score) ==
  IF score > Milli(700) THEN "ALIGNED"
  ELSE IF score > Milli(500) THEN "REVIEW"
  ELSE "MISALIGNED"
AppQuality(score) ==
  IF score > Milli(700)
  THEN (IF score > Milli(900) THEN "EXCELLENT"
        ELSE IF score > Milli(800) THEN "VERY_GOOD" ELSE "GOOD")
  ELSE IF score > Milli(500) THEN "FAIR"
  ELSE "POOR"

\* the match the record is built from: app.py keeps best_match whatever the status
AppKept(score, match) == match

\* app.py lines 253-262
AppRecord(eng_sub, score, match, conf) ==
  LET kept == AppKept(score, match) IN
  [sequence |-> eng_sub.id,
   eng_time |-> eng_sub.start,
   chi_time |-> IF kept # <<>> THEN kept[1].start ELSE NO_MATCH,
   english |-> eng_sub.text,
   chinese |-> IF kept # <<>> THEN kept[1].text ELSE NO_MATCH,
   confidence |-> conf,
   status |-> AppStatus(score),
   quality |-> AppQuality(score)]

\* ai_model.py lines 254-260
AiStatus(score) ==
  IF score > Milli(700) THEN "ALIGNED"
  ELSE IF score > Milli(400) THEN "REVIEW"
  ELSE "MISALIGNED"

\* ai_model.py line 260: a MISALIGNED record drops its match
AiKept(score, match) == IF AiStatus(score) = "MISALIGNED" THEN <<>> ELSE match

\* ai_model.py lines 262-270
AiRecord(eng_sub, score, match, conf) ==
  LET kept == AiKept(score, match) IN
  [sequence |-> eng_sub.id,
   eng_time |-> eng_sub.start,
   chi_time |-> IF kept # <<>> THEN kept[1].start ELSE NO_MATCH,
   english |-> eng_sub.text,
   chinese |-> IF kept # <<>> THEN kept[1].text ELSE NO_MATCH,
   confidence |-> conf,
   status |-> AiStatus(score)]

\* an append that leaves out the cues without a match
AppendRecord_SkipUnmatched(records, record) ==
  IF record.chinese = NO_MATCH THEN records ELSE Append(records, record)

\* results.append(...) / aligned_pairs.append(...)
AppendRecord(records, record) == Append(records, record)

\* a scan that replaces the candidate kept by one that scores the same
Better_OrEqual(score, best) == score >= best

\* a scan that keeps the last candidate scored
Better_KeepLast(score, best) == TRUE

\* `if combined_score > best_score:` / `if score > best_score:`
Better(score, best) == score > best

(***************************************************************************)
(* Inputs.                                                                 *)
(***************************************************************************)
MaxEng == 2        \* short source tracks have up to MaxEng cues
MaxChi == 2        \* target tracks have up to MaxChi cues
LongLen == 21      \* the length of the long source tracks (more than one batch)
LongChi == 17      \* the length of the long target tracks (more than one search radius)

TS_10_000 == <<"0","0",":","0","0",":","1","0",",","0","0","0">>
TS_10_500 == <<"0","0",":","0","0",":","1","0",",","5","0","0">>
TS_65_250 == <<"0","0",":","0","1",":","0","5",",","2","5","0">>

EngHello == <<"h","e","l","l","o">>
EngGood == <<"G","o","o","d"," ","d","a","y","!">>
EngWhy == <<"O","M","A","R",":"," ","(","s","i","g","h","s",")"," ","w","h","y","?">>
ChiNiHao == <<"u4f60","u597d">>
ChiHao == <<"u597d">>
ChiWeiShenMe == <<"u70ba","u4ec0","u9ebc","uff1f">>

Body(start, text) == [start |-> start, text |-> text]
EngBodies == {Body(TS_10_000, EngHello), Body(TS_10_500, EngGood), Body(TS_65_250, EngWhy)}
ChiBodies == {Body(TS_10_500, ChiNiHao), Body(TS_10_000, ChiHao), Body(TS_65_250, ChiWeiShenMe)}

\* the track a parser makes of a sequence of cue bodies: ids count from 1
Track(bodies) ==
  [k \in 1..Len(bodies) |-> [id |-> k, start |-> bodies[k].start, text |-> bodies[k].text]]
\* every track of up to n cues over a set of bodies
Tracks(bodies, n) == {Track(b) : b \in UNION {[1..m -> bodies] : m \in 0..n}}
\* pattern repeated to length n
Cycle(pattern, n) == [k \in 1..n |-> pattern[((k - 1) % Len(pattern)) + 1]]
LongTracks(bodies, n) == {Track(Cycle(<<b>>, n)) : b \in bodies}

\* get_embeddings raises, or the cosine of the two normalised embeddings
Providers ==
  {[raises |-> TRUE, cosine |-> 0]}
    \cup {[raises |-> FALSE, cosine |-> c] : c \in {-1000, 100, 1000}}

NoResponse == [kind |-> "none", code |-> 0, results |-> <<>>]

Idle ==
  /\ i = 0 /\ eng_idx = 0 /\ chi_idx = 0
  /\ best_score = 0 /\ best_match = <<>> /\ semantic_score = 0
  /\ results = <<>> /\ response = NoResponse
  /\ scored = {}
  /\ feedback_store = <<>> /\ submissions = <<>>

Init ==
  /\ impl \in {"app", "ai"}
  /\ provider \in Providers
  /\ impl = "ai" => provider.raises
  /\ english_subs \in Tracks(EngBodies, MaxEng) \cup LongTracks(EngBodies, LongLen)
  /\ chinese_subs \in Tracks(ChiBodies, MaxChi) \cup LongTracks(ChiBodies, LongChi)
  /\ half_up \in BOOLEAN
  /\ pc = "start"
  /\ Idle
  /\ time_str = <<>> /\ time_ret = 0

(***************************************************************************)
(* app.py api_align_subtitles, from the parsed tracks on.                  *)
(***************************************************************************)
\* lines 202-209: the empty-track check, then results = []
AppValidate ==
  /\ impl = "app" /\ pc = "start"
  /\ IF english_subs = <<>> \/ chinese_subs = <<>>
     THEN /\ response' = [kind |-> "error", code |-> 400, results |-> <<>>]
          /\ pc' = "done"
          /\ UNCHANGED <<i, results>>
     ELSE /\ results' = <<>>
          /\ i' = 0
          /\ pc' = "batch"
          /\ UNCHANGED response
  /\ UNCHANGED <<impl, provider, english_subs, chinese_subs, eng_idx, chi_idx,
                 best_score, best_match, semantic_score, scored,
                 feedback_store, submissions, half_up, time_str, time_ret>>

\* line 211-214: the next batch starts at i, or the loop is over
AppBatch ==
  /\ impl = "app" /\ pc = "batch"
  /\ IF i < Len(english_subs)
     THEN /\ eng_idx' = i
          /\ pc' = "cue"
     ELSE /\ pc' = "summary"
          /\ UNCHANGED eng_idx
  /\ UNCHANGED <<impl, provider, english_subs, chinese_subs, i, chi_idx,
                 best_score, best_match, semantic_score, results, response,
                 scored,
                 feedback_store, submissions, half_up, time_str, time_ret>>

\* lines 214-221: the next cue of the batch; line 265 once the batch is done
AppCue ==
  /\ impl = "app" /\ pc = "cue"
  /\ IF eng_idx < batch_end(i, Len(english_subs))
     THEN /\ best_match' = <<>>
          /\ best_score' = 0
          /\ chi_idx' = search_start(eng_idx)
          /\ scored' = {}
          /\ pc' = "scan"
          /\ UNCHANGED i
     ELSE /\ i' = i + batch_size
          /\ pc' = "batch"
          /\ UNCHANGED <<best_match, best_score, chi_idx, scored>>
  /\ UNCHANGED <<impl, provider, english_subs, chinese_subs, eng_idx,
                 semantic_score, results, response,
                 feedback_store, submissions, half_up, time_str, time_ret>>

\* lines 223-240: one candidate is scored; an exception that leaves
\* semantic_similarity ends the request in the handler of lines 286-287
AppScore ==
  /\ impl = "app" /\ pc = "scan"
  /\ chi_idx < search_end(eng_idx, Len(chinese_subs))
  /\ LET eng_sub == english_subs[eng_idx + 1]
         chi_sub == chinese_subs[chi_idx + 1]
         sem == semantic_similarity(provider, eng_sub.text, chi_sub.text)
         combined == combined_score(sem.value, eng_sub, chi_sub)
     IN IF sem.raised
        THEN /\ response' = [kind |-> "error", code |-> 500, results |-> <<>>]
             /\ pc' = "done"
             /\ UNCHANGED <<semantic_score, best_score, best_match, chi_idx, scored>>
        ELSE /\ semantic_score' = sem.value
             /\ IF Better(combined, best_score)
                THEN best_score' = combined /\ best_match' = <<chi_sub>>
                ELSE UNCHANGED <<best_score, best_match>>
             /\ chi_idx' = chi_idx + 1
             /\ scored' = scored \cup {chi_idx}
             /\ UNCHANGED <<pc, response>>
  /\ UNCHANGED <<impl, provider, english_subs, chinese_subs, i, eng_idx,
                 results,
                 feedback_store, submissions, half_up, time_str, time_ret>>

\* lines 242-262: the record of the cue is appended
AppEmit ==
  /\ impl = "app" /\ pc = "scan"
  /\ chi_idx >= search_end(eng_idx, Len(chinese_subs))
  /\ results' = AppendRecord(results,
                             AppRecord(english_subs[eng_idx + 1], best_score, best_match,
                                       Round(best_score, Milli(1), half_up)))
  /\ eng_idx' = eng_idx + 1
  /\ pc' = "cue"
  /\ UNCHANGED <<impl, provider, english_subs, chinese_subs, i, chi_idx,
                 best_score, best_match, semantic_score, response, scored,
                 feedback_store, submissions, half_up, time_str, time_ret>>

\* lines 267-284: the response
AppReturn ==
  /\ impl = "app" /\ pc = "summary"
  /\ response' = [kind |-> "ok", code |-> 200, results |-> results]
  /\ pc' = "done"
  /\ UNCHANGED <<impl, provider, english_subs, chinese_subs, i, eng_idx, chi_idx,
                 best_score, best_match, semantic_score, results, scored,
                 feedback_store, submissions, half_up, time_str, time_ret>>

(***************************************************************************)
(* ai_model.py SubtitleAI.align_subtitles                                  *)
(***************************************************************************)
\* line 241: aligned_pairs = []
AiStart ==
  /\ impl = "ai" /\ pc = "start"
  /\ results' = <<>>
  /\ eng_idx' = 0
  /\ pc' = "cue"
  /\ UNCHANGED <<impl, provider, english_subs, chinese_subs, i, chi_idx,
                 best_score, best_match, semantic_score, response, scored,
                 feedback_store, submissions, half_up, time_str, time_ret>>

\* lines 243-245: the next source cue; line 272 when there is none
AiCue ==
  /\ impl = "ai" /\ pc = "cue"
  /\ IF eng_idx < Len(english_subs)
     THEN /\ best_match' = <<>>
          /\ best_score' = 0
          /\ chi_idx' = 0
          /\ scored' = {}
          /\ pc' = "scan"
          /\ UNCHANGED response
     ELSE /\ response' = [kind |-> "ok", code |-> 0, results |-> results]
          /\ pc' = "done"
          /\ UNCHANGED <<best_match, best_score, chi_idx, scored>>
  /\ UNCHANGED <<impl, provider, english_subs, chinese_subs, i, eng_idx,
                 semantic_score, results,
                 feedback_store, submissions, half_up, time_str, time_ret>>

\* lines 247-251: one candidate is scored
AiScore ==
  /\ impl = "ai" /\ pc = "scan"
  /\ chi_idx < Len(chinese_subs)
  /\ LET chi_sub == chinese_subs[chi_idx + 1]
         score == calculate_match_score(english_subs[eng_idx + 1], chi_sub)
     IN IF Better(score, best_score)
        THEN best_score' = score /\ best_match' = <<chi_sub>>
        ELSE UNCHANGED <<best_score, best_match>>
  /\ chi_idx' = chi_idx + 1
  /\ scored' = scored \cup {chi_idx}
  /\ UNCHANGED <<impl, provider, english_subs, chinese_subs, pc, i, eng_idx,
                 semantic_score, results, response,
                 feedback_store, submissions, half_up, time_str, time_ret>>

\* lines 253-270: the record of the cue is appended
AiEmit ==
  /\ impl = "ai" /\ pc = "scan"
  /\ chi_idx >= Len(chinese_subs)
  /\ results' = AppendRecord(results,
                             AiRecord(english_subs[eng_idx + 1], best_score, best_match,
                                      10 * Round(best_score, Milli(10), half_up)))
  /\ eng_idx' = eng_idx + 1
  /\ pc' = "cue"
  /\ UNCHANGED <<impl, provider, english_subs, chinese_subs, i, chi_idx,
                 best_score, best_match, semantic_score, response, scored,
                 feedback_store, submissions, half_up, time_str, time_ret>>

Next ==
  \/ AppValidate \/ AppBatch \/ AppCue \/ AppScore \/ AppEmit \/ AppReturn
  \/ AiStart \/ AiCue \/ AiScore \/ AiEmit

Spec == Init /\ [][Next]_vars

(***************************************************************************)
(* Scenarios: one source cue against one target cue.  Every (key, form)    *)
(* pair of the two keyword tables at one timestamp, and the hello pair     *)
(* half a second apart.                                                    *)
(***************************************************************************)
InitScenario ==
  /\ impl \in {"app", "ai"}
  /\ provider \in Providers
  /\ impl = "ai" => provider.raises
  /\ half_up \in BOOLEAN
  /\ \/ \E k \in 1..Len(critical_phrases) : \E f \in 1..Len(critical_phrases[k].forms) :
          /\ impl = "ai"
          /\ english_subs = Track(<<Body(TS_10_000, critical_phrases[k].key)>>)
          /\ chinese_subs = Track(<<Body(TS_10_000, critical_phrases[k].forms[f])>>)
     \/ \E k \in 1..Len(keyword_pairs) : \E f \in 1..Len(keyword_pairs[k].forms) :
          /\ impl = "app"
          /\ english_subs = Track(<<Body(TS_10_000, keyword_pairs[k].key)>>)
          /\ chinese_subs = Track(<<Body(TS_10_000, keyword_pairs[k].forms[f])>>)
     \/ /\ english_subs = Track(<<Body(TS_10_000, EngHello)>>)
        /\ chinese_subs = Track(<<Body(TS_10_500, ChiNiHao)>>)
  /\ pc = "start"
  /\ Idle
  /\ time_str = <<>> /\ time_ret = 0

SpecScenario == InitScenario /\ [][Next]_vars

(***************************************************************************)
(* Calls of the two time_to_seconds.                                       *)
(***************************************************************************)
HourFields == {<<"0","0">>, <<"1">>, <<"-","1">>, <<" ","2">>, <<"x">>, <<>>}
MinuteFields == {<<"0","0">>, <<"2">>, <<"0","1">>, <<"-","1">>}
SecondFields ==
  {<<"1","0",",","0","0","0">>, <<"0","5",",","2","5","0">>, <<"3",".","4">>,
   <<"-","5">>, <<"1",",","2",",","3">>, <<"x">>, <<"5",".">>, <<>>}
Colon(a, b) == a \o <<":">> \o b
TimeInputs ==
  {Colon(h, Colon(m, s)) : h \in HourFields, m \in MinuteFields, s \in SecondFields}
    \cup {<<"g","a","r","b","a","g","e">>, Colon(<<"1">>, <<"2">>),
          Colon(<<"1">>, Colon(<<"2">>, Colon(<<"3">>, <<"4">>)))}

InitTime ==
  /\ impl \in {"app", "ai"}
  /\ time_str \in TimeInputs
  /\ time_ret = 0
  /\ pc = "call"
  /\ provider = [raises |-> TRUE, cosine |-> 0]
  /\ half_up = FALSE
  /\ english_subs = <<>> /\ chinese_subs = <<>>
  /\ Idle

\* app.py time_to_seconds is called and returns
AppTimeToSeconds ==
  /\ impl = "app" /\ pc = "call"
  /\ time_ret' = time_to_seconds(time_str)
  /\ pc' = "returned"
  /\ UNCHANGED <<impl, provider, english_subs, chinese_subs, i, eng_idx, chi_idx,
                 best_score, best_match, semantic_score, results, response,
                 scored,
                 feedback_store, submissions, half_up, time_str>>

\* ai_model.py SubtitleAI.time_to_seconds is called and returns
AiTimeToSeconds ==
  /\ impl = "ai" /\ pc = "call"
  /\ time_ret' = SubtitleAI_time_to_seconds(time_str)
  /\ pc' = "returned"
  /\ UNCHANGED <<impl, provider, english_subs, chinese_subs, i, eng_idx, chi_idx,
                 best_score, best_match, semantic_score, results, response,
                 scored,
                 feedback_store, submissions, half_up, time_str>>

NextTime == AppTimeToSeconds \/ AiTimeToSeconds

SpecTime == InitTime /\ [][NextTime]_vars

(***************************************************************************)
(* Properties.                                                             *)
(***************************************************************************)
Done == pc = "done"
NonEmptyTracks == english_subs # <<>> /\ chinese_subs # <<>>

\* C1: for a non-empty source track and a non-empty target track the
\* alignment returns exactly as many records as there are source cues, and
\* while it runs it holds one record for each source cue it has finished.
C1_OneRecordPerSourceCue ==
  /\ pc \in {"cue", "scan"} => Len(results) = eng_idx
  /\ (Done /\ NonEmptyTracks) =>
       /\ response.kind = "ok"
       /\ Len(response.results) = Len(english_subs)

\* C1 witness: a request over a source track of more than one batch has
\* returned, with records that carry no target among them
C1_Witness ==
  /\ Done /\ impl = "app" /\ chinese_subs # <<>>
  /\ Len(english_subs) > batch_size
  /\ Len(response.results) = Len(english_subs)
  /\ \E k \in 1..Len(response.results) : response.results[k].chinese = NO_MATCH

\* C2: every record whose status is MISALIGNED carries the 'NO MATCH' marker
\* as its target text and as its target start.
C2_MisalignedCarriesNoTarget ==
  \A k \in 1..Len(results) :
    results[k].status = "MISALIGNED" =>
      results[k].chinese = NO_MATCH /\ results[k].chi_time = NO_MATCH

C4_OutputInSourceOrder ==
  /\ Len(results) <= Len(english_subs)
  /\ \A k \in 1..Len(results) :
       /\ results[k].sequence = english_subs[k].id
       /\ results[k].eng_time = english_subs[k].start
       /\ results[k].english = english_subs[k].text
  /\ (Done /\ response.kind = "ok") => response.results = results

\* C4 witness: a request whose source track spans two batches has returned
C4_Witness ==
  /\ Done /\ impl = "app" /\ response.kind = "ok"
  /\ Len(english_subs) > batch_size
  /\ Len(response.results) > batch_size
  /\ i > batch_size

\* C5: when the source track or the target track is empty the alignment
\* reports an error and returns no record list.
C5_EmptyTrackIsAnError ==
  (Done /\ ~NonEmptyTracks) => (response.kind = "error" /\ response.results = <<>>)

\* C6: when get_embeddings raises on every call, api_align_subtitles scores
\* every candidate with keyword_similarity, answers 200 with one record per
\* source cue, and never answers 500.
C6_DegradesToKeywordScore ==
  (impl = "app" /\ provider.raises) =>
    /\ response.code # 500
    /\ (Done /\ NonEmptyTracks) =>
         /\ response.kind = "ok" /\ response.code = 200
         /\ Len(response.results) = Len(english_subs)
    /\ (pc = "scan" /\ chi_idx > search_start(eng_idx)) =>
         semantic_score = keyword_similarity(english_subs[eng_idx + 1].text,
                                             chinese_subs[chi_idx].text)

\* C6 witness: a request has returned with a record whose target was chosen
\* on a keyword score above 0 while the provider raised
C6_Witness ==
  /\ Done /\ impl = "app" /\ provider.raises /\ response.kind = "ok"
  /\ semantic_score > 0
  /\ \E k \in 1..Len(response.results) : response.results[k].status = "REVIEW"

\* C7: time_to_seconds returns a non-negative offset for every input, and 0
\* when the input does not have exactly three ':'-separated fields.
C7_TimeIsNonNegative ==
  pc = "returned" =>
    /\ time_ret >= 0
    /\ Len(Split(time_str, ":")) # 3 => time_ret = 0

\* the source text holds a concept key of the table and the target text one
\* of that key's surface forms
AliasEquivalent(table, eng_text, chi_text) ==
  MatchRows(table, Lower(eng_text), chi_text) # {}
EngineTable == IF impl = "ai" THEN critical_phrases ELSE keyword_pairs
\* the content of a pair is judged by the keyword tables
LexicalEngine == impl = "ai" \/ provider.raises

\* C8: a source cue and a target cue with identical start timestamps and
\* alias-equivalent text are classified ALIGNED with a confidence of at
\* least 0.7 (one cue on each side, content judged by the keyword tables).
C8_AliasPairIsAligned ==
  ( /\ Done /\ LexicalEngine
    /\ Len(english_subs) = 1 /\ Len(chinese_subs) = 1
    /\ english_subs[1].start = chinese_subs[1].start
    /\ AliasEquivalent(EngineTable, english_subs[1].text, chinese_subs[1].text) )
  => /\ response.kind = "ok"
     /\ response.results[1].status = "ALIGNED"
     /\ response.results[1].confidence >= 700

\* C9: the source cue hello at 00:00:10,000 against the only target cue
\* U+4F60 U+597D at 00:00:10,500 yields one record, ALIGNED, with that target
\* text and a confidence above 0.7.
C9_HelloScenario ==
  ( /\ Done /\ LexicalEngine
    /\ english_subs = Track(<<Body(TS_10_000, EngHello)>>)
    /\ chinese_subs = Track(<<Body(TS_10_500, ChiNiHao)>>) )
  => /\ response.kind = "ok"
     /\ Len(response.results) = 1
     /\ response.results[1].status = "ALIGNED"
     /\ response.results[1].chinese = ChiNiHao
     /\ response.results[1].confidence > 700

\* the target positions (1-based) scored for the source cue at position k
CandidateSet(k) ==
  IF impl = "ai" THEN 1..Len(chinese_subs)
  ELSE (search_start(k - 1) + 1)..search_end(k - 1, Len(chinese_subs))
\* the timing score of a pair, with the window of the running engine
PairTiming(eng_sub, chi_sub) ==
  IF impl = "ai"
  THEN TimingScore(Abs(SubtitleAI_time_to_seconds(eng_sub.start)
                       - SubtitleAI_time_to_seconds(chi_sub.start)), 5000)
  ELSE TimingScore(Abs(time_to_seconds(eng_sub.start)
                       - time_to_seconds(chi_sub.start)), 8000)
\* no candidate of source cue k is inside the timing window or shares a
\* concept key with it, and the semantic score is at most the default 0.1
NoSignal(k) ==
  /\ impl = "app" => (provider.raises \/ provider.cosine <= 100)
  /\ \A p \in CandidateSet(k) :
       /\ PairTiming(english_subs[k], chinese_subs[p]) = 0
       /\ ~AliasEquivalent(EngineTable,
                           IF impl = "ai" THEN clean_text(english_subs[k].text)
                           ELSE english_subs[k].text,
                           chinese_subs[p].text)

\* C10: a source cue none of whose candidates shares a timing or a lexical
\* signal with it gets a MISALIGNED record whose target text is 'NO MATCH'.
C10_NoSignalIsNoMatch ==
  \A k \in 1..Len(results) :
    NoSignal(k) =>
      results[k].status = "MISALIGNED" /\ results[k].chinese = NO_MATCH

(***************************************************************************)
(* FeedbackStore, as spec sections 3, 4.5 and 6 describe it (the code of   *)
(* the store is not among the source files at hand).                       *)
(***************************************************************************)
feedback_capacity == 3   \* the capacity of the store in the model
MaxSubmits == 5          \* confirmed-correct submissions per run

FeedbackSources == {EngHello, EngGood}
FeedbackTargets == {ChiNiHao, ChiHao}

\* FeedbackEntry {sourceText, targetText, boost}, the boost 0.3 in thousandths
FeedbackEntry(source_text, target_text) ==
  [sourceText |-> source_text, targetText |-> target_text, boost |-> 300]

\* a store that turns the new entry away once it is full
record_KeepOldest(store, source_text, target_text, was_correct) ==
  IF ~was_correct THEN store
  ELSE SubSeq(Append(store, FeedbackEntry(source_text, target_text)), 1,
              Min(Len(store) + 1, feedback_capacity))

\* record(sourceText, targetText, wasCorrect): the store afterwards
record(store, source_text, target_text, was_correct) ==
  IF ~was_correct THEN store
  ELSE LET appended == Append(store, FeedbackEntry(source_text, target_text))
       IN IF Len(appended) > feedback_capacity THEN Tail(appended) ELSE appended

InitFeedback ==
  /\ impl = "app"
  /\ provider = [raises |-> TRUE, cosine |-> 0]
  /\ half_up = FALSE
  /\ english_subs = <<>> /\ chinese_subs = <<>>
  /\ pc = "feedback"
  /\ Idle
  /\ time_str = <<>> /\ time_ret = 0

\* submitFeedback(sourceText, targetText, wasCorrect): the store is updated
\* and the number of stored entries returned
SubmitFeedback ==
  /\ pc = "feedback"
  /\ \E a \in FeedbackSources, b \in FeedbackTargets, was_correct \in BOOLEAN :
       /\ was_correct => Len(submissions) < MaxSubmits
       /\ feedback_store' = record(feedback_store, a, b, was_correct)
       /\ submissions' = IF was_correct
                         THEN Append(submissions, FeedbackEntry(a, b))
                         ELSE submissions
       /\ response' = [kind |-> "count", code |-> Len(feedback_store'), results |-> <<>>]
  /\ UNCHANGED <<impl, provider, english_subs, chinese_subs, pc, i, eng_idx, chi_idx,
                 best_score, best_match, semantic_score, results, scored,
                 half_up, time_str, time_ret>>

NextFeedback == SubmitFeedback

SpecFeedback == InitFeedback /\ [][NextFeedback]_vars

\* the last n elements of a sequence
LastN(seq, n) == SubSeq(seq, Len(seq) - n + 1, Len(seq))

\* C11: the store holds the most recent confirmed-correct submissions in
\* submission order, at most feedback_capacity of them: exactly
\* feedback_capacity once more than that were submitted, the oldest evicted
\* first; a submission with wasCorrect = false leaves the store as it was.
C11_StoreHoldsMostRecent ==
  pc = "feedback" =>
    /\ Len(feedback_store) = Min(Len(submissions), feedback_capacity)
    /\ feedback_store = LastN(submissions, Min(Len(submissions), feedback_capacity))
    /\ response.kind = "count" => response.code = Len(feedback_store)

\* C11 witness: more submissions than the capacity were made and the first
\* of them is no longer in the store
C11_Witness ==
  /\ pc = "feedback"
  /\ Len(submissions) > feedback_capacity
  /\ Len(feedback_store) = feedback_capacity
  /\ \A k \in 1..Len(feedback_store) : feedback_store[k] # submissions[1]

\* the source cue whose scan has just ended (0-based), at the moments its
\* record is the last one appended
JustEmitted == pc = "cue" /\ eng_idx >= 1 /\ Len(results) = eng_idx

\* C12: for the source cue at position i, api_align_subtitles scores exactly
\* the target positions p with max(0, i - 15) <= p <= min(len - 1, i + 15).
C12_WindowIsSymmetric ==
  (impl = "app" /\ JustEmitted) =>
    scored = {p \in 0..(Len(chinese_subs) - 1) :
                /\ (eng_idx - 1) - search_radius <= p
                /\ p <= (eng_idx - 1) + search_radius}

\* C13: the status of a record is a total, exclusive function of the
\* unrounded best score of its cue: ALIGNED iff the score is above the high
\* threshold (0.7), REVIEW iff it is above the medium threshold (0.5 in
\* app.py, 0.4 in ai_model.py) and at most the high one, MISALIGNED
\* otherwise; a score equal to a threshold is in the lower class.
C13_StatusIsThresholdClass ==
  JustEmitted =>
    LET rec == results[Len(results)]
        high == (7 * Scale) \div 10
        medium == IF impl = "app" THEN (5 * Scale) \div 10 ELSE (4 * Scale) \div 10
    IN /\ rec.status \in {"ALIGNED", "REVIEW", "MISALIGNED"}
       /\ rec.status = "ALIGNED" <=> best_score > high
       /\ rec.status = "REVIEW" <=> (medium < best_score /\ best_score <= high)
       /\ rec.status = "MISALIGNED" <=> best_score <= medium

\* a record whose score is exactly the high threshold, classified REVIEW
C13_Witness ==
  /\ impl = "app" /\ JustEmitted
  /\ 10 * best_score = 7 * Scale
  /\ results[Len(results)].status = "REVIEW"

\* the score the running engine gives the source cue at e and the target cue
\* at p (0-based)
PairScore(e, p) ==
  LET eng_sub == english_subs[e + 1]
      chi_sub == chinese_subs[p + 1]
  IN IF impl = "app"
     THEN combined_score(semantic_similarity(provider, eng_sub.text, chi_sub.text).value,
                         eng_sub, chi_sub)
     ELSE calculate_match_score(eng_sub, chi_sub)

\* C14: after the scan of a source cue, no scored candidate has a score
\* above the best score; the candidate kept, if any, has that score, which is
\* above 0, and every candidate scored before it has a smaller one (of the
\* candidates tied at the maximum the earliest is kept); no candidate is kept
\* when no score is above 0.  Nothing but the scores of the cue's own
\* candidates decides it, so several source cues may keep the same target.
C14_GreedySelection ==
  (JustEmitted /\ response.kind = "none") =>
    LET e == eng_idx - 1 IN
    /\ \A p \in scored : PairScore(e, p) <= best_score
    /\ best_match = <<>> => best_score = 0
    /\ best_match # <<>> =>
         /\ best_score > 0
         /\ \E p \in scored :
              /\ chinese_subs[p + 1] = best_match[1]
              /\ PairScore(e, p) = best_score
              /\ \A q \in scored : q < p => PairScore(e, q) < best_score

\* the first two candidates tie at the greatest score and the first is kept,
\* the target cue the previous source cue was given too
C14_Witness ==
  /\ JustEmitted /\ eng_idx >= 2
  /\ {0, 1} \subseteq scored
  /\ best_score > 0
  /\ PairScore(eng_idx - 1, 0) = best_score
  /\ PairScore(eng_idx - 1, 1) = best_score
  /\ best_match = <<chinese_subs[1]>>
  /\ results[eng_idx].chinese = chinese_subs[1].text
  /\ results[eng_idx - 1].chinese = chinese_subs[1].text
  /\ results[eng_idx - 1].chi_time = chinese_subs[1].start

(***************************************************************************)
(* The lexical scores as functions of one pair of texts: keyword_similarity *)
(* (app.py) and calculate_critical_score (ai_model.py), each called on the  *)
(* text of the one cue of english_subs and of chinese_subs.                 *)
(***************************************************************************)
EngMixed == <<"T","h","a","n","k"," ","y","o","u",","," ","m","y"," ","F","R","I","E","N","D">>
\* the source texts: every key of the table, and texts with no key, with
\* several, in upper case, and the empty text
LexSources(table) ==
  {table[k].key : k \in 1..Len(table)} \cup {EngHello, EngGood, EngWhy, EngMixed, <<>>}
\* the target texts: every surface form of the table, and texts with none
LexTargets(table) ==
  UNION {{table[k].forms[f] : f \in 1..Len(table[k].forms)} : k \in 1..Len(table)}
    \cup {ChiNiHao, ChiHao, ChiWeiShenMe, <<>>}

InitLexical ==
  /\ impl \in {"app", "ai"}
  /\ provider = [raises |-> TRUE, cosine |-> 0]
  /\ half_up = FALSE
  /\ \E eng_text \in LexSources(EngineTable), chi_text \in LexTargets(EngineTable) :
       /\ english_subs = Track(<<Body(TS_10_000, eng_text)>>)
       /\ chinese_subs = Track(<<Body(TS_10_000, chi_text)>>)
  /\ pc = "lex"
  /\ Idle
  /\ time_str = <<>> /\ time_ret = 0

\* app.py: keyword_similarity(eng_text, chi_text)
AppKeywordSimilarity ==
  /\ impl = "app" /\ pc = "lex"
  /\ semantic_score' = keyword_similarity(english_subs[1].text, chinese_subs[1].text)
  /\ pc' = "lexed"
  /\ UNCHANGED <<impl, provider, english_subs, chinese_subs, i, eng_idx, chi_idx,
                 best_score, best_match, results, response, scored,
                 feedback_store, submissions, half_up, time_str, time_ret>>

\* ai_model.py: calculate_critical_score(eng_text, chi_text)
AiCriticalScore ==
  /\ impl = "ai" /\ pc = "lex"
  /\ semantic_score' = calculate_critical_score(english_subs[1].text, chinese_subs[1].text)
  /\ pc' = "lexed"
  /\ UNCHANGED <<impl, provider, english_subs, chinese_subs, i, eng_idx, chi_idx,
                 best_score, best_match, results, response, scored,
                 feedback_store, submissions, half_up, time_str, time_ret>>

NextLexical == AppKeywordSimilarity \/ AiCriticalScore

SpecLexical == InitLexical /\ [][NextLexical]_vars

\* the concept keys of the engine's table that occur in the lower-cased
\* source text, and those with a surface form in the target text
KeysInSource == {k \in 1..Len(EngineTable) :
                   Contains(EngineTable[k].key, Lower(english_subs[1].text))}
KeysInTarget == {k \in 1..Len(EngineTable) :
                   \E f \in 1..Len(EngineTable[k].forms) :
                      Contains(EngineTable[k].forms[f], chinese_subs[1].text)}

\* C15: the lexical score of a pair of texts is matches / max(applicable, 1),
\* a concept key being applicable when it is in the lower-cased source text
\* or has a surface form in the target text and a match when both hold; the
\* score is in [0, 1] and is 0 when no concept key is applicable.
C15_LexicalScoreIsMatchRatio ==
  pc = "lexed" =>
    LET applicable == Cardinality(KeysInSource \cup KeysInTarget)
        matches == Cardinality(KeysInSource \cap KeysInTarget)
    IN /\ semantic_score * (IF applicable > 1 THEN applicable ELSE 1) = matches * Scale
       /\ 0 <= semantic_score /\ semantic_score <= Scale
       /\ applicable = 0 => semantic_score = 0

\* a pair with a matching concept key and an applicable one that does not
\* match: a score strictly between 0 and 1
C15_Witness ==
  /\ pc = "lexed"
  /\ KeysInSource \cap KeysInTarget # {}
  /\ KeysInTarget \ KeysInSource # {}
  /\ 0 < semantic_score /\ semantic_score < Scale

====
